---- MODULE Spec2Model ----
(***************************************************************************)
(* fix_math_delims_clipboard.py: the clipboard filter that rewrites        *)
(* ad-hoc math notation of Markdown text into $...$ / $$...$$ form.        *)
(*                                                                         *)
(* A text is a sequence of one-character strings.  Every pass of convert   *)
(* is an operator computed the way the Python code computes it: a regular  *)
(* expression of the source is written down node by node and run by a      *)
(* backtracking matcher with Python's priorities (leftmost match, greedy   *)
(* and lazy repetition, ordered alternation), and re.sub is "find the      *)
(* non-overlapping matches left to right, splice the replacements in".     *)
(***************************************************************************)
EXTENDS Integers, Sequences, FiniteSets, TLC

\* ------------------------------------------------------------------ text

Chars(str) == [i \in 1..Len(str) |-> SubSeq(str, i, i)]

\* The backtick: a TLA+ string cannot hold that character, so this element
\* stands for it in a text.
Tick == "tick"
Fence == <<Tick, Tick, Tick>>

Min(S) == CHOOSE x \in S : \A y \in S : x <= y
Max(S) == CHOOSE x \in S : \A y \in S : x >= y

\* s[a:b] of Python with 1-based positions: the characters a .. b-1.
Slice(s, a, b) == SubSeq(s, a, b - 1)

\* "".join(parts) and sep.join(parts); the fold is over the index set so
\* that the depth of evaluation does not grow with the text.
RECURSIVE JoinFrom(_, _, _)
JoinFrom(parts, sep, k) ==
  IF k > Len(parts) THEN <<>>
  ELSE IF k = Len(parts) THEN parts[k]
  ELSE parts[k] \o sep \o JoinFrom(parts, sep, k + 1)
Join(parts, sep) == JoinFrom(parts, sep, 1)

Digits == {"0", "1", "2", "3", "4", "5", "6", "7", "8", "9"}
Lower  == {"a", "b", "c", "d", "e", "f", "g", "h", "i", "j", "k", "l", "m",
           "n", "o", "p", "q", "r", "s", "t", "u", "v", "w", "x", "y", "z"}
Upper  == {"A", "B", "C", "D", "E", "F", "G", "H", "I", "J", "K", "L", "M",
           "N", "O", "P", "Q", "R", "S", "T", "U", "V", "W", "X", "Y", "Z"}
Letters == Lower \cup Upper
Alnum   == Letters \cup Digits
\* \s of re and the characters str.strip() removes (the ASCII ones TLA+ can
\* write; the texts of this model use " " and "\n" only).
WS == {" ", "\t", "\n", "\r", "\f"}
\* the line boundaries of str.splitlines() among those characters
LineEnds == {"\n", "\r", "\f"}

\* str(n) for n >= 0, and int(digits)
DigitOf(d) == CHOOSE c \in Digits : Chars("0123456789")[d + 1] = c
RECURSIVE str(_)
str(n) == IF n < 10 THEN <<DigitOf(n)>> ELSE str(n \div 10) \o <<DigitOf(n % 10)>>
ValOf(c) == CHOOSE d \in 0..9 : DigitOf(d) = c
RECURSIVE int(_)
int(ds) == IF Len(ds) = 0 THEN 0
           ELSE 10 * int(SubSeq(ds, 1, Len(ds) - 1)) + ValOf(ds[Len(ds)])

\* s.lstrip(cs), s.rstrip(cs), s.strip(cs)
lstrip(s, cs) ==
  LET keep == {p \in 1..Len(s) : s[p] \notin cs}
  IN IF keep = {} THEN <<>> ELSE SubSeq(s, Min(keep), Len(s))
rstrip(s, cs) ==
  LET keep == {p \in 1..Len(s) : s[p] \notin cs}
  IN IF keep = {} THEN <<>> ELSE SubSeq(s, 1, Max(keep))
strip(s, cs) == lstrip(rstrip(s, cs), cs)

\* s.splitlines(): the lines without their line ends; "\r\n" is one line
\* end; a final line end opens no empty last line.
splitlines(s) ==
  LET n == Len(s)
      \* positions that end a line: a line-end character that is not the
      \* "\r" of a "\r\n" pair
      ends == {p \in 1..n : s[p] \in LineEnds
                             /\ ~(s[p] = "\r" /\ p < n /\ s[p + 1] = "\n")}
      starts == {1} \cup {p + 1 : p \in ends}
      live == {a \in starts : a <= n}
      lineAt(a) ==
        LET e == Min({p \in ends : p >= a})
            stop == IF \E p \in ends : p >= a
                    THEN (IF s[e] = "\n" /\ e > 1 /\ s[e - 1] = "\r" /\ e - 1 >= a
                          THEN e - 1 ELSE e)
                    ELSE n + 1
        IN Slice(s, a, stop)
      order == [k \in 1..Cardinality(live) |->
                 CHOOSE a \in live : Cardinality({b \in live : b < a}) = k - 1]
  IN [k \in 1..Cardinality(live) |-> lineAt(order[k])]

\* needle in s
Contains(s, needle) ==
  \E p \in 1..(Len(s) - Len(needle) + 1) :
     SubSeq(s, p, p + Len(needle) - 1) = needle
HasChar(s, cs) == \E p \in 1..Len(s) : s[p] \in cs
startswith(s, prefix) ==
  Len(s) >= Len(prefix) /\ SubSeq(s, 1, Len(prefix)) = prefix

\* ------------------------------------------------------- regular expressions
\* A pattern is a sequence of nodes.  A repetition is of a character class,
\* from min to max times, or from min times on when it is unbounded.

LitSeq(w)     == [t |-> "lit", w |-> w]
Lit(w)        == LitSeq(Chars(w))
In(cs)        == [t |-> "rep", neg |-> FALSE, cs |-> cs, min |-> 1, max |-> 1,
                  unbounded |-> FALSE, lazy |-> FALSE]
NotIn(cs)     == [In(cs) EXCEPT !.neg = TRUE]
Rep(c, lo, hi) == [c EXCEPT !.min = lo, !.max = hi, !.unbounded = FALSE]
AtLeast(c, lo) == [c EXCEPT !.min = lo, !.max = lo, !.unbounded = TRUE]
Star(c)       == AtLeast(c, 0)
Plus(c)       == AtLeast(c, 1)
Opt(c)        == Rep(c, 0, 1)
Lazy(r)       == [r EXCEPT !.lazy = TRUE]
Alt(alts)     == [t |-> "alt", alts |-> alts]
Open(n)       == [t |-> "open", n |-> n]
Close(n)      == [t |-> "close", n |-> n]
Group(n, re)  == <<Open(n)>> \o re \o <<Close(n)>>
BackRef(n)    == [t |-> "ref", n |-> n]
Bol           == [t |-> "bol"]      \* ^ under re.MULTILINE
Eol           == [t |-> "eol"]      \* $ under re.MULTILINE
Start         == [t |-> "start"]    \* ^ without re.MULTILINE
End           == [t |-> "end"]      \* $ without re.MULTILINE
NotBehind(cs) == [t |-> "nb", cs |-> cs]   \* (?<![cs])
NotAhead(cs)  == [t |-> "na", cs |-> cs]   \* (?![cs])
Ahead(re)     == [t |-> "la", re |-> re]   \* (?=re)
AnyChar       == NotIn({})          \* [\s\S]
Dot           == NotIn({"\n"})      \* .
Space         == In(WS)             \* \s
Digit         == In(Digits)         \* \d

\* The spans of groups 1 to 3: no pattern here has more groups.
NoGroups == <<(<<0, 0>>), (<<0, 0>>), (<<0, 0>>)>>
Fail == [ok |-> FALSE, e |-> 0, g |-> NoGroups]

\* The longest run of characters of class h from position i, cut at h.max.
RunLen(h, s, i) ==
  LET n == Len(s)
      bad == {p \in i..n : (s[p] \in h.cs) = h.neg}
      all == IF bad = {} THEN n + 1 - i ELSE Min(bad) - i
  IN IF ~h.unbounded /\ h.max < all THEN h.max ELSE all

\* Match the pattern k (what is left of it) at position i of s, with the
\* groups g captured so far: the first match in backtracking order.
RECURSIVE M(_, _, _, _)
M(k, s, i, g) ==
  IF Len(k) = 0 THEN [ok |-> TRUE, e |-> i, g |-> g]
  ELSE
    LET h == Head(k)
        t == Tail(k)
        n == Len(s)
    IN CASE h.t = "lit" ->
              IF i + Len(h.w) - 1 <= n /\ SubSeq(s, i, i + Len(h.w) - 1) = h.w
              THEN M(t, s, i + Len(h.w), g) ELSE Fail
         [] h.t = "rep" ->
              \* greedy: the longest run after which the rest matches;
              \* lazy: the shortest
              LET L == RunLen(h, s, i)
                  ok == {j \in (i + h.min)..(i + L) : M(t, s, j, g).ok}
              IN IF ok = {} THEN Fail
                 ELSE M(t, s, IF h.lazy THEN Min(ok) ELSE Max(ok), g)
         [] h.t = "alt" ->
              LET ok == {a \in 1..Len(h.alts) : M(h.alts[a] \o t, s, i, g).ok}
              IN IF ok = {} THEN Fail ELSE M(h.alts[Min(ok)] \o t, s, i, g)
         [] h.t = "open" ->
              M(t, s, i, [g EXCEPT ![h.n] = <<i, i>>])
         [] h.t = "close" ->
              M(t, s, i, [g EXCEPT ![h.n] = <<g[h.n][1], i>>])
         [] h.t = "ref" ->
              LET w == Slice(s, g[h.n][1], g[h.n][2])
              IN IF i + Len(w) - 1 <= n /\ SubSeq(s, i, i + Len(w) - 1) = w
                 THEN M(t, s, i + Len(w), g) ELSE Fail
         [] h.t = "bol" ->
              IF i = 1 \/ s[i - 1] = "\n" THEN M(t, s, i, g) ELSE Fail
         [] h.t = "eol" ->
              IF i = n + 1 \/ s[i] = "\n" THEN M(t, s, i, g) ELSE Fail
         [] h.t = "start" ->
              IF i = 1 THEN M(t, s, i, g) ELSE Fail
         [] h.t = "end" ->
              IF i = n + 1 \/ (i = n /\ s[n] = "\n") THEN M(t, s, i, g) ELSE Fail
         [] h.t = "nb" ->
              IF i = 1 \/ s[i - 1] \notin h.cs THEN M(t, s, i, g) ELSE Fail
         [] h.t = "na" ->
              IF i = n + 1 \/ s[i] \notin h.cs THEN M(t, s, i, g) ELSE Fail
         [] h.t = "la" ->
              IF M(h.re, s, i, g).ok THEN M(t, s, i, g) ELSE Fail

\* re.match(s): a match at the start of s
match(re, s) == M(re, s, 1, NoGroups)

\* re.search(s): is there a match somewhere in s
search(re, s) == \E p \in 1..(Len(s) + 1) : M(re, s, p, NoGroups).ok

\* The matches re.sub and re.finditer walk through: from the left, each
\* match starts at the first position at or after the end of the one before
\* it.  (No pattern of this program matches the empty string.)
RECURSIVE MatchesFrom(_, _, _)
MatchesFrom(at, s, pos) ==
  LET hits == {p \in pos..(Len(s) + 1) : at[p].ok}
  IN IF hits = {} THEN <<>>
     ELSE LET p == Min(hits)
          IN <<[st |-> p, en |-> at[p].e, g |-> at[p].g]>>
             \o MatchesFrom(at, s, at[p].e)
finditer(re, s) ==
  MatchesFrom([p \in 1..(Len(s) + 1) |-> M(re, s, p, NoGroups)], s, 1)

\* m.group(n) of a match m in s (m.group(0) is the whole match)
group(s, m, n) == IF n = 0 THEN Slice(s, m.st, m.en)
                  ELSE Slice(s, m.g[n][1], m.g[n][2])

\* re.sub: the text with the k-th match replaced by reps[k]
RECURSIVE SpliceFrom(_, _, _, _)
SpliceFrom(s, ms, reps, k) ==
  IF k > Len(ms) THEN <<>>
  ELSE reps[k] \o Slice(s, ms[k].en, IF k = Len(ms) THEN Len(s) + 1 ELSE ms[k + 1].st)
       \o SpliceFrom(s, ms, reps, k + 1)
Splice(s, ms, reps) ==
  IF Len(ms) = 0 THEN s
  ELSE Slice(s, 1, ms[1].st) \o SpliceFrom(s, ms, reps, 1)


\* re.sub(repl, s) with repl a function of the match
sub(re, repl(_, _), s) ==
  LET ms == finditer(re, s)
  IN Splice(s, ms, [k \in 1..Len(ms) |-> repl(s, ms[k])])

\* ------------------------------------------- protect code & math blocks
BACKTICK_FENCE_RE ==
  <<LitSeq(Fence), Star(NotIn({"\r", "\n"})), Opt(In({"\r"})), Lit("\n"),
    Lazy(Star(AnyChar)), Opt(In({"\r"})), Lit("\n"), LitSeq(Fence)>>
INLINE_CODE_RE ==
  <<LitSeq(<<Tick>>), Star(NotIn({Tick, "\r", "\n"})), LitSeq(<<Tick>>)>>
DOLLAR_BLOCK_RE ==
  <<Lit("$$"), Lazy(Star(AnyChar)), Lit("$$")>>

\* f"@@{tag}_{n}@@"
Token(tag, n) == Chars("@@") \o Chars(tag) \o Chars("_") \o str(n) \o Chars("@@")

\* re.sub(lambda m: keep(m.group(0), tag), text): every match is appended to
\* sent and replaced by the token that carries its index in sent.
keep(re, tag, text, sent) ==
  LET ms == finditer(re, text)
  IN [text |-> Splice(text, ms, [k \in 1..Len(ms) |-> Token(tag, Len(sent) + k - 1)]),
      sent |-> sent \o [k \in 1..Len(ms) |-> group(text, ms[k], 0)]]

_protect(text) ==
  LET a == keep(BACKTICK_FENCE_RE, "CODEFENCE", text, <<>>)
  IN keep(INLINE_CODE_RE, "INLINE", a.text, a.sent)

_protect_math(text, sent) == keep(DOLLAR_BLOCK_RE, "MATH", text, sent)

\* sent[int(m.group(1))] for every token; an index outside sent raises
\* IndexError (ok = FALSE), and then there is no result text.
TokenRE(tags) ==
  <<Lit("@@"), Alt([k \in 1..Len(tags) |-> <<Lit(tags[k])>>]), Lit("_")>>
  \o Group(1, <<Plus(Digit)>>) \o <<Lit("@@")>>
Restore(re, text, sent) ==
  LET ms == finditer(re, text)
      idx(k) == int(group(text, ms[k], 1))
      ok == \A k \in 1..Len(ms) : idx(k) < Len(sent)
  IN [ok |-> ok,
      text |-> IF ok THEN Splice(text, ms, [k \in 1..Len(ms) |-> sent[idx(k) + 1]])
               ELSE <<>>]
_unprotect(text, sent) ==
  Restore(TokenRE(<<"CODEFENCE", "INLINE", "MATH", "INL">>), text, sent)
_unprotect_inl_only(text, sent) ==
  Restore(TokenRE(<<"INL">>), text, sent)

\* ------------------------------------------------------------ detectors
LATEX_TOKENS ==
  <<"\\frac", "\\partial", "\\nabla", "\\mathbf", "\\mathrm", "\\mathbb",
    "\\vec", "\\hat", "\\dot", "\\ddot", "\\sum", "\\int", "\\cdot",
    "\\alpha", "\\beta", "\\gamma", "\\delta", "\\theta", "\\lambda", "\\mu",
    "\\sigma", "\\phi", "\\psi", "\\Omega", "\\infty", "\\leq", "\\geq",
    "\\neq", "\\approx", "\\rightarrow", "\\left", "\\right", "\\begin",
    "\\end", "\\displaystyle", "\\boxed">>
LATEX_TOKENS_RE ==
  Group(1, <<Alt([k \in 1..Len(LATEX_TOKENS) |-> <<Lit(LATEX_TOKENS[k])>>])>>)
MATHISH_OP_RE == <<In({"=", "+", "-", "*", "/", "^", "_"})>>
looks_like_latex(s) == search(LATEX_TOKENS_RE, s)

\* ---------------------------------------------------------- conversions
convert_code_fences(text) ==
  LET repl(s, m) ==
        LET fence == group(s, m, 0)
            lines == splitlines(fence)
            first == strip(lines[1], WS)
            body  == strip(Join(SubSeq(lines, 2, Len(lines) - 1), Chars("\n")), WS)
        IN IF startswith(first, Fence \o Chars("latex"))
              \/ startswith(first, Fence \o Chars("tex"))
           THEN Chars("$$\n") \o body \o Chars("\n$$")
           ELSE fence
  IN sub(BACKTICK_FENCE_RE, repl, text)

convert_backslash_brackets(text) ==
  LET display == <<Lit("\\["), Star(Space)>> \o Group(1, <<Lazy(Star(AnyChar))>>)
                 \o <<Star(Space), Lit("\\]")>>
      inline  == <<Lit("\\("), Star(Space)>>
                 \o Group(1, <<Lazy(Star(NotIn({"\r", "\n"})))>>)
                 \o <<Star(Space), Lit("\\)")>>
      t1 == sub(display, LAMBDA s, m : Chars("$$\n") \o group(s, m, 1) \o Chars("\n$$"), text)
  IN sub(inline, LAMBDA s, m : Chars("$") \o group(s, m, 1) \o Chars("$"), t1)

convert_square_bracket_blocks(text) ==
  LET blank == In({" ", "\t"})
      patt == <<Bol, Star(blank), Lit("["), Star(blank), Opt(In({"\r"})), Lit("\n")>>
              \o Group(1, <<Lazy(Star(AnyChar))>>)
              \o <<Opt(In({"\r"})), Lit("\n"), Star(blank), Lit("]"), Star(blank), Eol>>
  IN sub(patt, LAMBDA s, m : Chars("\n$$\n") \o strip(group(s, m, 1), WS) \o Chars("\n$$\n"),
         text)

\* ------------------------------------ stack-based outer math parentheses
\* The scan of protect_outer_math_parens.  Only "(" and ")" act on the stack,
\* so the scan steps through the positions at of those characters (at[k..]
\* are still to come): stack holds the positions of the "(" still open
\* (innermost last), pairs the (start, end) pairs closed so far, in the order
\* their ")" was met.
RECURSIVE ScanParens(_, _, _, _, _)
ScanParens(s, at, k, stack, pairs) ==
  IF k > Len(at) THEN pairs
  ELSE IF s[at[k]] = "(" THEN ScanParens(s, at, k + 1, Append(stack, at[k]), pairs)
  ELSE IF Len(stack) > 0
       THEN ScanParens(s, at, k + 1, SubSeq(stack, 1, Len(stack) - 1),
                       Append(pairs, <<stack[Len(stack)], at[k]>>))
  ELSE ScanParens(s, at, k + 1, stack, pairs)

\* the elements of a set of integers in increasing order
Ascending(S) ==
  [r \in 1..Cardinality(S) |-> CHOOSE x \in S : Cardinality({y \in S : y < x}) = r - 1]

is_math_outer(content) ==
  IF HasChar(content, {"$"}) THEN FALSE
  ELSE LET c == strip(content, WS)
       IN IF Len(c) < 5 THEN FALSE
          ELSE search(MATHISH_OP_RE, c) \/ looks_like_latex(c)

\* seq.sort(key) for keys that order the elements totally: before(x, y) is
\* key(x) < key(y).
SortBy(seq, before(_, _)) ==
  LET n == Len(seq)
      rank(k) == Cardinality({j \in 1..n : before(seq[j], seq[k])})
  IN [r \in 1..n |-> seq[CHOOSE k \in 1..n : rank(k) = r - 1]]

\* the filter of a list, in order
RECURSIVE Filter(_, _, _)
Filter(seq, keepIt(_), k) ==
  IF k > Len(seq) THEN <<>>
  ELSE (IF keepIt(seq[k]) THEN <<seq[k]>> ELSE <<>>) \o Filter(seq, keepIt, k + 1)

\* A faulty variant of Select that skips nothing and selects every candidate:
\* C15_MaximalDisjointSelection fails of it.
Select_KeepAll(cand, k, selected) == cand

\* the greedy selection: a candidate inside an already selected one is skipped
RECURSIVE Select(_, _, _)
Select(cand, k, selected) ==
  IF k > Len(cand) THEN selected
  ELSE LET a == cand[k][1]
           b == cand[k][2]
       IN IF \E q \in 1..Len(selected) : selected[q][1] <= a /\ b <= selected[q][2]
          THEN Select(cand, k + 1, selected)
          ELSE Select(cand, k + 1, Append(selected, cand[k]))

\* the output loop: out and sent after the spans sel[k..] are replaced, pos
\* being the first position of s not yet written
RECURSIVE Emit(_, _, _, _, _, _)
Emit(s, sel, k, pos, out, sent) ==
  IF k > Len(sel) THEN [text |-> out \o Slice(s, pos, Len(s) + 1), sent |-> sent]
  ELSE LET a == sel[k][1]
           b == sel[k][2]
           inner == strip(Slice(s, a + 1, b), WS)
           display == HasChar(inner, {"\n"}) \/ Contains(inner, Chars("\\begin{"))
           region == IF display THEN Chars("$$") \o inner \o Chars("$$")
                     ELSE Chars("$") \o inner \o Chars("$")
       IN IF a < pos THEN Emit(s, sel, k + 1, pos, out, sent)
          ELSE Emit(s, sel, k + 1, b + 1,
                    out \o Slice(s, pos, a) \o Token("INL", Len(sent)),
                    Append(sent, region))

OuterPairs(s) ==
  ScanParens(s, Ascending({p \in 1..Len(s) : s[p] \in {"(", ")"}}), 1, <<>>, <<>>)
OuterCandidates(s) ==
  LET cand == Filter(OuterPairs(s), LAMBDA p : is_math_outer(Slice(s, p[1] + 1, p[2])), 1)
  IN SortBy(cand, LAMBDA x, y : x[1] < y[1] \/ (x[1] = y[1] /\ x[2] > y[2]))
OuterSelected(s) == Select(OuterCandidates(s), 1, <<>>)

protect_outer_math_parens(text, sent) ==
  LET pairs == OuterPairs(text)
      cand == OuterCandidates(text)
      selected == OuterSelected(text)
  IN IF Len(pairs) = 0 \/ Len(cand) = 0 THEN [text |-> text, sent |-> sent]
     ELSE Emit(text, SortBy(selected, LAMBDA x, y : x[1] < y[1]), 1, 1, <<>>, sent)

\* --------------------------------------------------- inline conversions
convert_token_paren_numeric(text) ==
  LET allowed == Alnum \cup {" ", ",", "+", "-", "*", "/", "^", "_", "=", ".", ":",
                             ";", "\\"}
      patt == Group(1, <<In(Alnum)>>) \o <<Lit("("), Star(Space)>>
              \o Group(2, <<Lazy(Plus(In(allowed)))>>) \o <<Star(Space), Lit(")")>>
  IN sub(patt, LAMBDA s, m : Chars("$") \o group(s, m, 1) \o Chars("(")
                             \o strip(group(s, m, 2), WS) \o Chars(")$"),
         text)

ALLOW == {<<"x">>, <<"y">>, <<"z">>, <<"T">>, <<"v">>, <<"u">>}
\* A faulty variant of DiffShape that lost its leading "d", ^[A-Za-z]+$: with
\* it every bare word is a candidate, and C6_WordUnchanged fails.
DiffShape_NoLeadingD == <<Start, Plus(In(Letters)), End>>
\* ^d[A-Za-z]+$ under re.match
DiffShape == <<Start, Lit("d"), Plus(In(Letters)), End>>
MaxSpan == 160

is_inline_math_candidate(s) ==
  IF looks_like_latex(s) THEN TRUE
  ELSE IF HasChar(s, {"=", "+", "*", "/", "^", "_"}) THEN TRUE
  ELSE IF search(<<Digit>>, s) THEN TRUE
  ELSE IF search(<<Start, In(Letters), Star(Space), Lit("("),
                   Star(NotIn({"(", ")", "\n"})), Lit(")"), End>>, s) THEN TRUE
  ELSE IF s \in ALLOW \/ match(DiffShape, s).ok THEN TRUE
  ELSE FALSE

convert_inline_parentheses(text) ==
  LET span == Rep(NotIn({"(", ")", "\r", "\n"}), 1, MaxSpan)
      repl(s, m) ==
        LET inner == group(s, m, 1)
            c == strip(inner, WS)
        IN IF HasChar(inner, {"\n", "[", "]", "$"}) THEN group(s, m, 0)
           ELSE IF c \in ALLOW \/ match(DiffShape, c).ok
                THEN Chars("$") \o c \o Chars("$")
           ELSE IF is_inline_math_candidate(c) THEN Chars("$") \o c \o Chars("$")
           ELSE group(s, m, 0)
      double == <<Lit("((")>> \o Group(1, <<span>>) \o <<Lit("))")>>
      single == <<Lit("(")>> \o Group(1, <<span>>) \o <<Lit(")")>>
      t1 == sub(double, LAMBDA s, m : Chars("$(") \o strip(group(s, m, 1), WS) \o Chars(")$"),
                text)
  IN sub(single, repl, t1)

\* ----------------------------------------------------- math block regex
MATH_BLOCK_RE ==
  <<Lit("$$")>> \o Group(1, <<Lazy(Star(AnyChar))>>) \o <<Lit("$$")>>

ENV_NAMES == <<"bmatrix", "pmatrix", "vmatrix", "Bmatrix", "Vmatrix", "matrix", "cases">>
MATRIX_ENV_RE ==
  <<Lit("\\begin{")>>
  \o Group(1, <<Alt([k \in 1..Len(ENV_NAMES) |-> <<Lit(ENV_NAMES[k])>>])>>)
  \o <<Lit("}")>> \o Group(2, <<Lazy(Star(AnyChar))>>)
  \o <<Lit("\\end{"), BackRef(1), Lit("}")>>

\* ------------------------------------------------------ line/row fixers
\* (?<!\\)\\\s*$ : a backslash not preceded by one, then blanks to the end
SINGLE_SLASH_EOL == <<NotBehind({"\\"}), Lit("\\"), Star(Space), End>>
\* \\\\(\[\d+pt\])?\s*$ : a row separator at the end
ROW_BREAK_EOL ==
  <<Lit("\\\\"), Alt(<<Group(1, <<Lit("["), Plus(Digit), Lit("pt]")>>), <<>>>>),
    Star(Space), End>>
\* ^(.*?)(?<!\\)\[\s*(\d+pt)\s*\]\s*$ : a trailing [Npt]
TRAILING_PT ==
  <<Start>> \o Group(1, <<Lazy(Star(Dot))>>)
  \o <<NotBehind({"\\"}), Lit("["), Star(Space)>>
  \o Group(2, <<Plus(Digit), Lit("pt")>>)
  \o <<Star(Space), Lit("]"), Star(Space), End>>
\* (\\\\(\[\d+pt\])?\s*|&\s*)$ : the row ends in a separator or in &
ROW_DONE ==
  Group(1, <<Alt(<<<<Lit("\\\\"),
                     Alt(<<Group(2, <<Lit("["), Plus(Digit), Lit("pt]")>>), <<>>>>),
                     Star(Space)>>,
                   <<Lit("&"), Star(Space)>>>>)>>)
  \o <<End>>

\* the replacement template r"\\" of re.sub writes ONE backslash
OneSlash(s, m) == Chars("\\")

\* A faulty variant of FixRow that only trims the row and never appends a
\* row separator: C7_PlainTwoRowRepair fails of it.
FixRow_TrimOnly(rows_in, i) == rstrip(rows_in[i], WS)

\* one row of _fix_matrix_rows: rows_in[i] as it is written to rows_out
FixRow(rows_in, i) ==
  LET line0 == rstrip(rows_in[i], WS)
      \* 1) single "\" at EOL
      line == sub(SINGLE_SLASH_EOL, OneSlash, line0)
      \* 2) trailing [3pt]
      m == match(TRAILING_PT, line)
      core0 == rstrip(Slice(line, m.g[1][1], m.g[1][2]), WS)
      pt == Slice(line, m.g[2][1], m.g[2][2])
      core == IF search(ROW_BREAK_EOL, core0) THEN sub(ROW_BREAK_EOL, OneSlash, core0)
              ELSE core0
      \* 3) not the last non-empty line, no \\ and no & at the end
      is_last_nonempty ==
        \A j \in (i + 1)..Len(rows_in) : Len(strip(rows_in[j], WS)) = 0
  IN IF Len(line0) = 0 THEN line0
     ELSE IF m.ok THEN core \o Chars("\\\\[") \o pt \o Chars("]")
     ELSE IF search(ROW_DONE, line) THEN line
     ELSE IF is_last_nonempty THEN line
     ELSE line \o Chars("\\\\")

_fix_matrix_rows(env_body) ==
  LET rows_in == splitlines(strip(env_body, {"\n"}))
  IN Join([i \in 1..Len(rows_in) |-> FixRow(rows_in, i)], Chars("\n"))

fix_matrices_in_math_blocks(text) ==
  LET fix_env(s, m) ==
        LET env == group(s, m, 1)
        IN Chars("\\begin{") \o env \o Chars("}\n") \o _fix_matrix_rows(group(s, m, 2))
           \o Chars("\n\\end{") \o env \o Chars("}")
      repl_math(s, m) ==
        Chars("$$") \o sub(MATRIX_ENV_RE, fix_env, group(s, m, 1)) \o Chars("$$")
  IN sub(MATH_BLOCK_RE, repl_math, text)

\* Catch-all: single "\" at EOL inside ANY $$...$$ block
fix_trailing_single_slashes_in_math(text) ==
  LET repl(s, m) ==
        LET lines == splitlines(group(s, m, 1))
            out == [k \in 1..Len(lines) |-> sub(SINGLE_SLASH_EOL, OneSlash, lines[k])]
        IN Chars("$$\n") \o Join(out, Chars("\n")) \o Chars("\n$$")
  IN sub(MATH_BLOCK_RE, repl, text)

\* Promote envs found inside inline $...$ to display
ENV_IN_INLINE_RE ==
  LET name == Plus(In(Letters \cup {"*"}))
  IN <<Lit("$")>>
     \o Group(1, <<Star(NotIn({"$"})), Lit("\\begin{"), name, Lit("}"),
                   Lazy(Star(AnyChar)), Lit("\\end{"), name, Lit("}"),
                   Star(NotIn({"$"}))>>)
     \o <<Lit("$")>>
promote_envs_inline_to_display(text) ==
  sub(ENV_IN_INLINE_RE, LAMBDA s, m : Chars("$$") \o group(s, m, 1) \o Chars("$$"), text)

\* ------------------------------------------------ spacing/normalization
ensure_blank_lines_around_display(text) ==
  LET blank == In({" ", "\t"})
      t1 == sub(<<Star(blank), Lit("$$"), Star(Space), Lit("\n")>>,
                LAMBDA s, m : Chars("\n$$\n"), text)
      t2 == sub(<<Lit("\n"), Star(Space), Lit("$$"), Star(Space), Star(blank)>>,
                LAMBDA s, m : Chars("\n$$"), t1)
      t3 == sub(Group(1, <<NotIn({"\n"})>>) \o <<Lit("\n$$")>>,
                LAMBDA s, m : group(s, m, 1) \o Chars("\n\n$$"), t2)
      t4 == sub(<<Lit("$$\n")>> \o Group(1, <<NotIn({"\n"})>>),
                LAMBDA s, m : Chars("$$\n\n") \o group(s, m, 1), t3)
  IN sub(<<Lit("$$"), Star(Space), Lit("\n"), Star(Space),
           Ahead(Group(1, <<Plus(Digit), Lit(".")>>) \o <<Lit(" ")>>)>>,
         LAMBDA s, m : Chars("$$\n\n"), t4)

fix_inline_spacing(text) ==
  LET t1 == sub(<<NotBehind({"$"}), Lit("$"), Plus(Space)>>,
                LAMBDA s, m : Chars("$"), text)
      t2 == sub(<<Plus(Space), Lit("$"), NotAhead({"$"})>>,
                LAMBDA s, m : Chars("$"), t1)
      t3 == sub(<<Lit("$")>> \o Group(1, <<Plus(NotIn({"$"}))>>) \o <<Lit("$")>>
                \o Group(2, <<In(Alnum)>>),
                LAMBDA s, m : Chars("$") \o group(s, m, 1) \o Chars("$ ") \o group(s, m, 2),
                t2)
      t4 == sub(<<Plus(Space), Lit("$")>> \o Group(1, <<Lazy(Plus(Dot))>>)
                \o <<Lit("$"), Plus(Space)>>,
                LAMBDA s, m : Chars(" $") \o group(s, m, 1) \o Chars("$ "), t3)
  IN sub(<<NotBehind({"$"}), Lit("$"), Plus(Space)>> \o Group(1, <<NotIn({"$"})>>),
         LAMBDA s, m : Chars("$") \o group(s, m, 1), t4)

MinDollarRun == 3
normalize_dollars(text) ==
  LET t1 == sub(<<AtLeast(In({"$"}), MinDollarRun)>>, LAMBDA s, m : Chars("$$"), text)
  IN sub(<<Lit("$$"), Opt(In({"\r"})), Lit("\n")>>
         \o Group(1, <<Plus(NotIn({"\r", "\n"}))>>)
         \o <<Opt(In({"\r"})), Lit("\n"), Lit("$$")>>,
         LAMBDA s, m : Chars("$$") \o group(s, m, 1) \o Chars("$$"), t1)

\* ------------------------------------------------------------ the program
\* clipboard: the system clipboard, read by get_clipboard and written by
\*            set_clipboard
\* pc:        the statement of main/convert that runs next; "idle" between
\*            two runs of the script, "raised" after an uncaught IndexError
\* text:      the parameter of convert in this run
\* protected, sent: the locals of convert
\* runs:      the runs of the script completed so far
VARIABLES clipboard, pc, text, protected, sent, runs
vars == <<clipboard, pc, text, protected, sent, runs>>

\* the script is run at most MaxRuns times on one clipboard
MaxRuns == 2

InitWith(inputs) ==
  /\ clipboard \in inputs
  /\ pc = "idle"
  /\ text = <<>>
  /\ protected = <<>>
  /\ sent = <<>>
  /\ runs = 0

\* a pass that rewrites protected and leaves sent alone
Pass(here, next, result) ==
  /\ pc = here
  /\ protected' = result
  /\ pc' = next
  /\ UNCHANGED <<clipboard, text, sent, runs>>

\* a pass that rewrites protected and appends to sent
PassSent(here, next, result) ==
  /\ pc = here
  /\ protected' = result.text
  /\ sent' = result.sent
  /\ pc' = next
  /\ UNCHANGED <<clipboard, text, runs>>

\* a pass that restores tokens from sent, or raises IndexError
PassRestore(here, next, result) ==
  /\ pc = here
  /\ protected' = IF result.ok THEN result.text ELSE protected
  /\ pc' = IF result.ok THEN next ELSE "raised"
  /\ UNCHANGED <<clipboard, text, sent, runs>>

\* main: src = get_clipboard() or sys.stdin.read(); out = convert(src).
\* Standard input is at its end: read after an empty clipboard it gives "".
Main ==
  /\ pc = "idle"
  /\ runs < MaxRuns
  /\ text' = clipboard
  /\ protected' = <<>>
  /\ sent' = <<>>
  /\ pc' = "_protect"
  /\ UNCHANGED <<clipboard, runs>>

Protect == PassSent("_protect", "convert_code_fences", _protect(text))
ConvertCodeFences ==
  Pass("convert_code_fences", "convert_backslash_brackets", convert_code_fences(protected))
ConvertBackslashBrackets ==
  Pass("convert_backslash_brackets", "convert_square_bracket_blocks",
       convert_backslash_brackets(protected))
ConvertSquareBracketBlocks ==
  Pass("convert_square_bracket_blocks", "fix_matrices_early",
       convert_square_bracket_blocks(protected))
FixMatricesEarly ==
  Pass("fix_matrices_early", "_protect_math", fix_matrices_in_math_blocks(protected))
ProtectMath ==
  PassSent("_protect_math", "protect_outer_math_parens", _protect_math(protected, sent))
ProtectOuterMathParens ==
  PassSent("protect_outer_math_parens", "convert_token_paren_numeric",
           protect_outer_math_parens(protected, sent))
ConvertTokenParenNumeric ==
  Pass("convert_token_paren_numeric", "convert_inline_parentheses",
       convert_token_paren_numeric(protected))
ConvertInlineParentheses ==
  Pass("convert_inline_parentheses", "promote_envs_inline_to_display",
       convert_inline_parentheses(protected))
PromoteEnvsInlineToDisplay ==
  Pass("promote_envs_inline_to_display", "_unprotect_inl_only",
       promote_envs_inline_to_display(protected))
UnprotectInlOnly ==
  PassRestore("_unprotect_inl_only", "fix_trailing_single_slashes_in_math",
              _unprotect_inl_only(protected, sent))
FixTrailingSingleSlashes ==
  Pass("fix_trailing_single_slashes_in_math", "fix_matrices_late",
       fix_trailing_single_slashes_in_math(protected))
FixMatricesLate ==
  Pass("fix_matrices_late", "ensure_blank_lines_around_display",
       fix_matrices_in_math_blocks(protected))
EnsureBlankLinesAroundDisplay ==
  Pass("ensure_blank_lines_around_display", "fix_inline_spacing",
       ensure_blank_lines_around_display(protected))
FixInlineSpacing ==
  Pass("fix_inline_spacing", "normalize_dollars", fix_inline_spacing(protected))
NormalizeDollars ==
  Pass("normalize_dollars", "_unprotect", normalize_dollars(protected))
Unprotect ==
  PassRestore("_unprotect", "set_clipboard", _unprotect(protected, sent))

\* main: set_clipboard(out)
SetClipboard ==
  /\ pc = "set_clipboard"
  /\ clipboard' = protected
  /\ runs' = runs + 1
  /\ pc' = "idle"
  /\ UNCHANGED <<text, protected, sent>>

Next ==
  \/ Main
  \/ Protect
  \/ ConvertCodeFences
  \/ ConvertBackslashBrackets
  \/ ConvertSquareBracketBlocks
  \/ FixMatricesEarly
  \/ ProtectMath
  \/ ProtectOuterMathParens
  \/ ConvertTokenParenNumeric
  \/ ConvertInlineParentheses
  \/ PromoteEnvsInlineToDisplay
  \/ UnprotectInlOnly
  \/ FixTrailingSingleSlashes
  \/ FixMatricesLate
  \/ EnsureBlankLinesAroundDisplay
  \/ FixInlineSpacing
  \/ NormalizeDollars
  \/ Unprotect
  \/ SetClipboard

\* ------------------------------------------------------- the clipboards
\* What is on the clipboard when the script is first run.  Each family of
\* texts below gives one specification; the program is the same in all.

\* "".join(parts)
Cat(parts) == Join(parts, <<>>)
\* the sequences over A of length at most n
SeqsUpTo(A, n) == UNION {[1..k -> A] : k \in 0..n}

\* (1) every short text over a few characters
MaxLen == 4
GenChars == {"(", ")", "f", "x", "+", "$", " ", "\n"}
GenInputs == SeqsUpTo(GenChars, MaxLen)

\* (2) code spans, fenced blocks and text of the placeholder shape, alone and
\*     inside parentheses or $$...$$, up to MaxSpans of them, one per line
MaxSpans == 2
CodeSpans ==
  { <<Tick, "a", Tick>>,
    <<Tick, "a", "+", "b", Tick>>,
    Fence \o Chars("\n(a+b)\n") \o Fence,
    Fence \o Chars("py\n(a+b)\n") \o Fence,
    Fence \o Chars("latex\nx+y\n") \o Fence,
    Fence \o Chars("tex\n\nx\n\n") \o Fence }
CodeWraps ==
  { <<"", "">>, <<"(", ")">>, <<"$$", "$$">>, <<"see ", " ok">>,
    <<"$$\n", "\n$$">>, <<"(x+y ", ")">> }
TokenTexts == { "@@MATH_0@@", "@@INL_0@@", "@@INLINE_0@@", "@@CODEFENCE_1@@" }
CodeUnits ==
  {Chars(w[1]) \o c \o Chars(w[2]) : w \in CodeWraps, c \in CodeSpans}
  \cup {Chars(w) : w \in TokenTexts}
CodeInputs == {Join(us, Chars("\n")) : us \in SeqsUpTo(CodeUnits, MaxSpans)}

\* (3) a sentence with one parenthesized span: a word over a few letters of
\*     at most MaxWord letters, or a short expression
MaxWord == 3
WordLetters == {"d", "o", "x"}
ProseWords == (SeqsUpTo(WordLetters, MaxWord) \ {<<>>}) \cup {Chars("however")}
ProseExprs == {Chars(e) : e \in {"x+1", "a=b", "a-b", "x_1", "2"}}
ProseBefore == {"", "This is ", "The value ", "f"}
ProseAfter == {"", " fine.", " is positive."}
ProseInputs ==
  {Chars(b) \o Chars("(") \o Chars(pad) \o w \o Chars(pad) \o Chars(")") \o Chars(a) :
     b \in ProseBefore, pad \in {"", " "}, w \in ProseWords \cup ProseExprs,
     a \in ProseAfter}

\* (4) a $$ block holding one environment of at most MaxRows rows, written
\*     with or without line breaks after \begin{..} and before \end{..}
MaxRows == 2
MatrixEnvs == {"cases", "bmatrix"}
MatrixRows ==
  {Chars(r) : r \in {"a", "a & b", "a &", "a\\", "a\\\\", "a[3pt]", "a\\\\[3pt]",
                     "a ", ""}}
MatrixDoc(env, rows, nl) ==
  Chars("$$\\begin{") \o Chars(env) \o Chars("}") \o Chars(nl)
  \o Join(rows, Chars("\n"))
  \o Chars(nl) \o Chars("\\end{") \o Chars(env) \o Chars("}$$")
MatrixInputs ==
  {MatrixDoc(env, rows, nl) :
     env \in MatrixEnvs, nl \in {"\n", ""},
     rows \in SeqsUpTo(MatrixRows, MaxRows) \ {<<>>}}

\* (5) one \[ body \] block
BracketBodies ==
  {Chars(b) : b \in {"x + y", "", "f(x)", "(a+b+c)", "\\(x\\)", "[\nx\n]", "a\nb",
                     "x_1", "a \\", "\\frac{a}{b}", "however", "1. x"}}
BracketInputs ==
  {Chars("\\[") \o Chars(pad) \o b \o Chars(pad) \o Chars("\\]") :
     pad \in {"", " ", "\n"}, b \in BracketBodies}

Init == InitWith(GenInputs)
Spec == Init /\ [][Next]_vars

InitCode == InitWith(CodeInputs)
SpecCode == InitCode /\ [][Next]_vars

InitProse == InitWith(ProseInputs)
SpecProse == InitProse /\ [][Next]_vars

InitMatrix == InitWith(MatrixInputs)
SpecMatrix == InitMatrix /\ [][Next]_vars

InitBracket == InitWith(BracketInputs)
SpecBracket == InitBracket /\ [][Next]_vars

\* (6) a $$ block holding one environment of at most MaxRows rows, each row
\*     a core followed by one of the row endings the row rules speak of
RowCores == {"a", "a & b"}
RowEndings ==
  {"", "\\", "\\ ", "[3pt]", " [3pt]", "[ 3pt ]", "\\\\[3pt]", "\\\\ [3pt]",
   "\\\\[2pt] [3pt]"}
RowEndRows == {Chars(c) \o Chars(e) : c \in RowCores, e \in RowEndings}
RowEndInputs ==
  {MatrixDoc("cases", rows, "\n") : rows \in SeqsUpTo(RowEndRows, MaxRows) \ {<<>>}}

\* (7) a call: a letter or digit, "(", an argument of five or more
\*     characters over the character set of convert_token_paren_numeric, ")",
\*     alone or in a sentence
CallPrefixes == {"f", "2"}
CallArgs == {"x+y+z", "a+b+c+d", "a,b,c", "abcde", "a.b.c", "a b c"}
CallInputs ==
  {Chars(b) \o Chars(f) \o Chars("(") \o Chars(arg) \o Chars(")") \o Chars(a) :
     b \in {"", "see "}, f \in CallPrefixes, arg \in CallArgs, a \in {"", " ok"}}

\* (8) nested and unmatched parentheses: at most MaxPieces pieces
MaxPieces == 4
ParenPieces == {"(", ")", "(a+b+c)", "x"}
ParenInputs == {Cat(ps) : ps \in SeqsUpTo({Chars(w) : w \in ParenPieces}, MaxPieces)}

InitRowEnd == InitWith(RowEndInputs)
SpecRowEnd == InitRowEnd /\ [][Next]_vars

InitCall == InitWith(CallInputs)
SpecCall == InitCall /\ [][Next]_vars

InitParen == InitWith(ParenInputs)
SpecParen == InitParen /\ [][Next]_vars

\* --------------------------------------------------------------- claims
\* convert has returned: its result is in protected, set_clipboard is next
Returned == pc = "set_clipboard"

\* C1 (idempotence): a run of the script on a clipboard that an earlier run
\* wrote leaves the clipboard as it found it, convert(convert(s)) =
\* convert(s).  In a run after the first, text is the result of the run
\* before it.
C1_Idempotent == (Returned /\ runs >= 1) => protected = text

\* C2 (protection): every inline code span and every fenced block other than
\* a latex/tex one that _protect put into sent is a substring of the result
\* of convert.
IsLatexFence(e) ==
  startswith(e, Fence \o Chars("latex")) \/ startswith(e, Fence \o Chars("tex"))
C2_CodeSurvives ==
  Returned =>
    \A k \in 1..Len(sent) :
       (sent[k][1] = Tick /\ ~IsLatexFence(sent[k])) => Contains(protected, sent[k])

\* C3 (totality): convert never raises, whatever the text, text of the
\* placeholder shape included.
C3_NeverRaises == pc # "raised"

\* C4 (backslash-bracket display): a text that is \[ body \], the body
\* holding no $, no backtick, no placeholder text, no environment and no \],
\* comes out as "$$", newline, the trimmed body, newline, "$$".
BracketBody(s) == Slice(s, 3, Len(s) - 1)
IsBracketDisplay(s) ==
  /\ Len(s) >= 4
  /\ startswith(s, Chars("\\["))
  /\ SubSeq(s, Len(s) - 1, Len(s)) = Chars("\\]")
  /\ ~HasChar(BracketBody(s), {"$", Tick})
  /\ ~Contains(BracketBody(s), Chars("@@"))
  /\ ~Contains(BracketBody(s), Chars("\\begin{"))
  /\ ~Contains(BracketBody(s), Chars("\\]"))
C4_BracketDisplay ==
  (Returned /\ IsBracketDisplay(text)) =>
    protected = Chars("$$\n") \o strip(BracketBody(text), WS) \o Chars("\n$$")

\* A sentence with one parenthesized span: words, a space, "(", the span,
\* ")", a space, words.  Group 1 is the text up to the "(", group 2 the
\* span, group 3 the text after the ")".
SentenceWith(spanChar) ==
  <<Start>>
  \o Group(1, <<Star(In(Letters \cup {" "})), In(Letters), Lit(" ")>>)
  \o <<Lit("(")>> \o Group(2, <<Plus(spanChar)>>) \o <<Lit(")")>>
  \o Group(3, <<Lit(" "), In(Letters), Star(In(Letters \cup {" ", "."}))>>)
  \o <<End>>

\* C5 (operator span in prose): in such a sentence a span of letters, digits
\* and the operators = + * / ^ _ that holds an operator is replaced by
\* $span$, with the single space on either side kept.
C5_PromotedInPlace ==
  LET m == match(SentenceWith(In(Alnum \cup {"=", "+", "*", "/", "^", "_"})), text)
  IN (Returned /\ m.ok /\ HasChar(group(text, m, 2), {"=", "+", "*", "/", "^", "_"})) =>
       protected = group(text, m, 1) \o Chars("$") \o group(text, m, 2) \o Chars("$")
                   \o group(text, m, 3)

\* A text of prose (letters, spaces, full stops) with exactly one
\* parenthesized span, whose interior is blanks, a word of two or more
\* letters, blanks.  Group 1 is the prose before, group 2 the word.
ProseChar == In(Letters \cup {" ", "."})
WordSpanDoc ==
  <<Start>> \o Group(1, <<Star(ProseChar)>>)
  \o <<Lit("("), Star(In({" "}))>>
  \o Group(2, <<In(Letters), Plus(In(Letters))>>)
  \o <<Star(In({" "})), Lit(")"), Star(ProseChar), End>>
EndsInAlnum(s) == Len(s) > 0 /\ s[Len(s)] \in Alnum

\* C6 as claimed (bare words): such a text is returned unchanged, whatever
\* the first letter of the word.
C6_AnyWordUnchanged ==
  (Returned /\ match(WordSpanDoc, text).ok) => protected = text

\* C6 as amended: such a text is returned unchanged when the word does not
\* start with "d" and no letter or digit stands right before the "(".
C6_WordUnchanged ==
  LET m == match(WordSpanDoc, text)
  IN (Returned /\ m.ok /\ group(text, m, 2)[1] # "d"
               /\ ~EndsInAlnum(group(text, m, 1))) =>
       protected = text
C6_Witness ==
  Returned /\ text = Chars("This is (however) fine.") /\ protected = text

\* A text that is one $$ block holding one environment of two rows, each
\* of \begin{..}, the rows and \end{..} on a line of its own.  Group 1 is the
\* environment name, groups 2 and 3 are the rows.
TwoRowBlock ==
  <<Start, Lit("$$\\begin{")>>
  \o Group(1, <<Alt([k \in 1..Len(ENV_NAMES) |-> <<Lit(ENV_NAMES[k])>>])>>)
  \o <<Lit("}\n")>> \o Group(2, <<Plus(NotIn({"\n"}))>>)
  \o <<Lit("\n")>> \o Group(3, <<Plus(NotIn({"\n"}))>>)
  \o <<Lit("\n\\end{"), BackRef(1), Lit("}$$"), End>>
TwoRowResult(env, r1, r2) ==
  Chars("$$\\begin{") \o env \o Chars("}\n") \o r1 \o Chars("\n") \o r2
  \o Chars("\n\\end{") \o env \o Chars("}$$")
IsBlank(row) == Len(strip(row, WS)) = 0
PlainCells(row) ==
  /\ \A p \in 1..Len(row) : row[p] \in Alnum \cup {" ", "&"}
  /\ ~IsBlank(row)
  /\ row[Len(row)] # " "

RowBreaksComplete(out) ==
  LET ms == finditer(MATRIX_ENV_RE, out)
  IN \A k \in 1..Len(ms) :
       LET rows == splitlines(group(out, ms[k], 2))
           live == {i \in 1..Len(rows) : ~IsBlank(rows[i])}
       IN \A i \in live :
            search(ROW_BREAK_EOL, rstrip(rows[i], WS)) <=> (i # Max(live))
C8_RowBreakComplete == Returned => RowBreaksComplete(protected)

\* The $ markers of a text, left to right: of a run of n "$" the first
\* n \div 2 pairs are "$$" markers, and an odd "$" left over is a "$" marker.
Markers(out) ==
  LET n == Len(out)
      starts == Ascending({p \in 1..n : out[p] = "$" /\ (p = 1 \/ out[p - 1] # "$")})
      lenAt(p) == RunLen(Plus(In({"$"})), out, p)
      ofRun(p) == [j \in 1..((lenAt(p) + 1) \div 2) |->
                     IF 2 * j <= lenAt(p) THEN "$$" ELSE "$"]
  IN Cat([r \in 1..Len(starts) |-> ofRun(starts[r])])
WellPaired(out) ==
  LET ms == Markers(out)
  IN /\ Len(ms) % 2 = 0
     /\ \A j \in 1..Len(ms) : j % 2 = 1 => ms[j] = ms[j + 1]

\* C9 (no nesting): the $ markers of the result pair up, opener and closer
\* of the same kind, with no marker between them and none left over.  The
\* texts looked at hold no "$" and no backtick, so that every marker of the
\* result is one convert wrote.
C9_WellPaired ==
  (Returned /\ ~HasChar(text, {"$", Tick})) => WellPaired(protected)

\* A text that is one fenced block labelled latex or tex; group 1 is what
\* stands between the opening line and the closing fence.
LatexFenceDoc ==
  <<Start, LitSeq(Fence), Alt(<<<<Lit("latex")>>, <<Lit("tex")>>>>), Lit("\n")>>
  \o Group(1, <<Lazy(Star(AnyChar))>>)
  \o <<Lit("\n"), LitSeq(Fence), End>>

\* C10 (latex fences): such a text comes out as "$$", newline, the trimmed
\* body, newline, "$$", and no fence is left in it.
C10_LatexFenceToDisplay ==
  LET m == match(LatexFenceDoc, text)
  IN (Returned /\ m.ok /\ m.e = Len(text) + 1) =>
       /\ protected = Chars("$$\n") \o strip(group(text, m, 1), WS) \o Chars("\n$$")
       /\ ~Contains(protected, Fence)

\* Text of the placeholder shape, @@TAG_n@@
PlaceholderRE ==
  <<Lit("@@"),
    Alt(<<<<Lit("CODEFENCE")>>, <<Lit("INLINE")>>, <<Lit("MATH")>>, <<Lit("INL")>>>>),
    Lit("_"), Plus(Digit), Lit("@@")>>

\* C11 (restoration is complete): when the text holds nothing of the
\* placeholder shape, the result of convert holds no placeholder token.
C11_NoTokenLeft ==
  (Returned /\ ~search(PlaceholderRE, text)) => ~search(PlaceholderRE, protected)

\* The rows of the first matrix-like or cases environment of a text, as
\* _fix_matrix_rows splits them.
EnvRows(s) ==
  LET ms == finditer(MATRIX_ENV_RE, s)
  IN IF Len(ms) = 0 THEN <<>>
     ELSE splitlines(strip(group(s, ms[1], 2), {"\n"}))
\* The row ends in exactly n backslashes.
EndsInSlashes(row, n) ==
  /\ Len(row) >= n
  /\ \A p \in (Len(row) - n + 1)..Len(row) : row[p] = "\\"
  /\ (Len(row) > n => row[Len(row) - n] # "\\")

\* C12 (row rule 1): a row of the environment that ends in exactly one
\* backslash, blanks after it or not, comes out ending in exactly two
\* backslashes, whatever its position.
C12_SingleSlashDoubled ==
  LET rin == EnvRows(text)
      rout == EnvRows(protected)
  IN (Returned /\ Len(rin) = Len(rout)) =>
       \A i \in 1..Len(rin) :
          EndsInSlashes(rstrip(rin[i], WS), 1) => EndsInSlashes(rout[i], 2)

\* A row that ends in a spacing annotation [Npt]: group 1 is what stands
\* before the annotation, group 2 is Npt.
ANNOTATED_ROW ==
  <<Start>> \o Group(1, <<Lazy(Star(Dot))>>)
  \o <<Lit("["), Star(Space)>> \o Group(2, <<Plus(Digit), Lit("pt")>>)
  \o <<Star(Space), Lit("]"), Star(Space), End>>
\* What stands before the annotation, without blanks and without a row
\* separator ("\\" or "\\[Npt]") at its end.
RowCore(pre) ==
  rstrip(sub(ROW_BREAK_EOL, LAMBDA s, m : <<>>, rstrip(pre, WS)), WS)

\* C13 (row rule 2): a row that ends in [Npt] comes out as its core, one row
\* separator, [Npt]; a separator that stood before the annotation is not
\* doubled, and a row written core\\[Npt] is unchanged.
C13_AnnotationMerged ==
  LET rin == EnvRows(text)
      rout == EnvRows(protected)
  IN (Returned /\ Len(rin) = Len(rout)) =>
       \A i \in 1..Len(rin) :
          LET m == match(ANNOTATED_ROW, rin[i])
          IN m.ok =>
               rout[i] = RowCore(group(rin[i], m, 1)) \o Chars("\\\\[")
                         \o group(rin[i], m, 2) \o Chars("]")

\* The characters an argument of convert_token_paren_numeric is made of
TokenArgChars == Alnum \cup {" ", ",", "+", "-", "*", "/", "^", "_", "=", ".", ":", ";", "\\"}
\* A text that is a call, alone or in the sentence "see <call> ok": group 1
\* is the call, a letter or digit and a parenthesized argument.
CallDoc ==
  <<Start, Alt(<<<<Lit("see ")>>, <<>>>>)>>
  \o Group(1, <<In(Alnum), Lit("("), Plus(In(TokenArgChars)), Lit(")")>>)
  \o <<Alt(<<<<Lit(" ok")>>, <<>>>>), End>>

\* C14 (the call shape is wrapped first): such a call comes out as one
\* inline region that holds the prefix character, $f(argument)$, whatever
\* the length of the argument.
C14_CallWrappedWhole ==
  LET m == match(CallDoc, text)
  IN (Returned /\ m.ok) =>
       Contains(protected, Chars("$") \o group(text, m, 1) \o Chars("$"))

\* The operator characters of the classifier: = + - * / ^ _
OperatorChars == {"=", "+", "-", "*", "/", "^", "_"}
\* A text of prose with one parenthesized span of letters, digits, blanks
\* and operator characters; group 1 is the prose before, group 2 the span.
OperatorSpanDoc ==
  <<Start>> \o Group(1, <<Star(ProseChar)>>)
  \o <<Lit("(")>> \o Group(2, <<Plus(In(Alnum \cup OperatorChars \cup {" "}))>>)
  \o <<Lit(")"), Star(ProseChar), End>>

\* C16 (operator rule): when the span holds an operator character, the
\* hyphen-minus included, and no letter or digit stands right before the
\* "(", the result holds the trimmed span as inline math, $span$, whatever
\* its length.
C16_OperatorSpanPromoted ==
  LET m == match(OperatorSpanDoc, text)
  IN (Returned /\ m.ok /\ HasChar(group(text, m, 2), OperatorChars)
               /\ ~EndsInAlnum(group(text, m, 1))) =>
       Contains(protected, Chars("$") \o strip(group(text, m, 2), WS) \o Chars("$"))

\* The set of the elements of a sequence
Range(seq) == {seq[k] : k \in 1..Len(seq)}
\* "(" at a and ")" at b match: what stands between them is balanced.
Depth(s, a, p) ==
  Cardinality({q \in (a + 1)..p : s[q] = "("}) - Cardinality({q \in (a + 1)..p : s[q] = ")"})
Matched(s, a, b) ==
  /\ a < b /\ s[a] = "(" /\ s[b] = ")"
  /\ \A p \in (a + 1)..(b - 1) : Depth(s, a, p) >= 0
  /\ Depth(s, a, b - 1) = 0
\* The unmatched parentheses of a text, left to right.
UnmatchedParens(s) ==
  LET at == {p \in 1..Len(s) :
               \/ s[p] = "(" /\ ~\E b \in (p + 1)..Len(s) : Matched(s, p, b)
               \/ s[p] = ")" /\ ~\E a \in 1..(p - 1) : Matched(s, a, p)}
      up == Ascending(at)
  IN [k \in 1..Len(up) |-> s[up[k]]]
\* x lies inside y
Inside(x, y) == y[1] <= x[1] /\ x[2] <= y[2]
\* The region stored for the span x of s
RegionOf(s, x) ==
  LET inner == strip(Slice(s, x[1] + 1, x[2]), WS)
  IN IF HasChar(inner, {"\n"}) \/ Contains(inner, Chars("\\begin{"))
     THEN Chars("$$") \o inner \o Chars("$$") ELSE Chars("$") \o inner \o Chars("$")

\* What C15 says of one application of protect_outer_math_parens, that
\* takes the text s and the table t to the text s2 and the table t2.
MaximalDisjoint(s, t, s2, t2) ==
  LET cand == Range(OuterCandidates(s))
      sel == OuterSelected(s)
      chosen == Range(sel)
  IN \* the selected spans are pairwise disjoint
     /\ \A x \in chosen : \A y \in chosen \ {x} : x[2] < y[1] \/ y[2] < x[1]
     \* each is a matched pair that passes the outer math test
     /\ \A x \in chosen :
          Matched(s, x[1], x[2]) /\ is_math_outer(Slice(s, x[1] + 1, x[2]))
     \* none lies inside another candidate
     /\ \A x \in chosen : \A y \in cand \ {x} : ~Inside(x, y)
     \* every candidate that is not selected lies inside a selected one
     /\ \A y \in cand \ chosen : \E x \in chosen : Inside(y, x)
     \* the selected spans, and nothing else, went into the table
     /\ Len(t2) = Len(t) + Len(sel)
     /\ \A k \in 1..Len(sel) :
          \E x \in chosen : t2[Len(t) + k] = RegionOf(s, x)
     \* the unmatched parentheses are left in the text
     /\ UnmatchedParens(s2) = UnmatchedParens(s)

\* C15 (maximal non-overlapping selection): every step of convert that
\* applies protect_outer_math_parens selects pairwise disjoint matched pairs
\* that pass the outer math test, the outermost candidates and only those,
\* and leaves the unmatched parentheses in the text.
C15_MaximalDisjointSelection ==
  [][(pc = "protect_outer_math_parens" /\ pc' = "convert_token_paren_numeric")
       => MaximalDisjoint(protected, sent, protected', sent')]_vars
C15_Witness ==
  /\ pc = "convert_token_paren_numeric"
  /\ text = Chars("(x(a+b+c))")
  /\ protected = Token("INL", 0)
  /\ sent = <<Chars("$x(a+b+c)$")>>

====
